---- MODULE Spec2Model ----
(***************************************************************************)
(* claude-codust: the interactive profile selector (src/ui.rs), the        *)
(* activation of a profile (src/commands.rs) and the settings reconciler   *)
(* (src/config.rs), as one sequential state machine.  Every `?` of the     *)
(* source is a branch of the step that holds it: the step either has its   *)
(* effect and goes on, or has no effect and the error unwinds to the       *)
(* caller.                                                                 *)
(***************************************************************************)
EXTENDS Integers, Sequences, FiniteSets, TLC

\* ------------------------------------------------------------------------
\* Bounds
\* ------------------------------------------------------------------------

\* the most profile files the two scanned directories hold together
MaxProfiles == 2

\* ------------------------------------------------------------------------
\* JSON values (serde_json::Value) and files
\* ------------------------------------------------------------------------

\* a JSON value inside an object of depth two: a string or a non-string
Str(v) == [t |-> "str", s |-> v]
Num == [t |-> "num", s |-> "0"]

\* the object with no key
EmptyObj == [k \in {} |-> Num]

\* a top-level JSON value: a string, a non-string scalar or an object
TStr(v) == [t |-> "str", s |-> v, o |-> EmptyObj]
TNum == [t |-> "num", s |-> "0", o |-> EmptyObj]
TObj(obj) == [t |-> "obj", s |-> "", o |-> obj]

EmptyTop == [k \in {} |-> TNum]

\* Map::remove and Map::insert
Remove(m, k) == [j \in DOMAIN m \ {k} |-> m[j]]
Insert(m, k, v) == [j \in DOMAIN m \cup {k} |-> IF j = k THEN v ELSE m[j]]

\* the content of a path: no file, a zero-length file (File::create has
\* truncated it), text that is not JSON, a JSON value that is not an object,
\* or a JSON object
Absent == [st |-> "absent", top |-> EmptyTop]
Truncated == [st |-> "truncated", top |-> EmptyTop]
Malformed == [st |-> "malformed", top |-> EmptyTop]
Scalar == [st |-> "scalar", top |-> EmptyTop]
Object(top) == [st |-> "object", top |-> top]

\* Path::exists
Exists(f) == f.st # "absent"

\* serde_json::from_str succeeds
Parses(f) == f.st \in {"scalar", "object"}

\* Value::get(key): Some for an object that has the key
Has(f, k) == f.st = "object" /\ k \in DOMAIN f.top

\* Value::get(key).and_then(as_object)
HasObj(f, k) == Has(f, k) /\ f.top[k].t = "obj"

\* Value::get(key).and_then(as_str)
HasStr(f, k) == Has(f, k) /\ f.top[k].t = "str"

\* ------------------------------------------------------------------------
\* Settings Reconciler, the pure part (src/config.rs)
\* ------------------------------------------------------------------------

anthropic_keys == {"ANTHROPIC_BASE_URL", "ANTHROPIC_AUTH_TOKEN", "ANTHROPIC_API_KEY"}

\* the scrub that forgets one of the three keys
removed_keys_forgets_api_key(f) ==
    IF HasObj(f, "env")
    THEN DOMAIN f.top["env"].o \cap {"ANTHROPIC_BASE_URL", "ANTHROPIC_AUTH_TOKEN"}
    ELSE {}

\* the credential keys the loop of config.rs:104-108 removes from `env`
removed_keys(f) ==
    IF HasObj(f, "env") THEN DOMAIN f.top["env"].o \cap anthropic_keys ELSE {}

\* the document written back at config.rs:122-123 (removed_keys non-empty)
updated_content(f) ==
    LET env_obj == f.top["env"].o
        kept == [j \in DOMAIN env_obj \ removed_keys(f) |-> env_obj[j]]
    IN  IF DOMAIN kept = {}
        THEN Object(Remove(f.top, "env"))
        ELSE Object(Insert(f.top, "env", TObj(kept)))

\* the extraction that forgets to skip `env`
local_settings_keeps_env(f) ==
    IF f.st = "object" THEN f.top ELSE EmptyTop

\* the object of config.rs:134-139: every top-level key except `env`
local_settings(f) ==
    IF f.st = "object" THEN Remove(f.top, "env") ELSE EmptyTop

\* config.rs:132 and 142: the profile is an object with a key other than env
writes_local(f) == f.st = "object" /\ DOMAIN local_settings(f) # {}

\* ------------------------------------------------------------------------
\* Environment Synthesizer (src/commands.rs:67-91)
\* ------------------------------------------------------------------------

\* the overlay that does not look at the type of the value
RECURSIVE insert_strings_any_type(_, _, _)
insert_strings_any_type(env, env_obj, keys) ==
    IF keys = {} THEN env
    ELSE LET key == CHOOSE k \in keys : TRUE
         IN  insert_strings_any_type(Insert(env, key, env_obj[key].s), env_obj, keys \ {key})

\* the string-valued entries of the profile's env object, laid over env
RECURSIVE insert_strings(_, _, _)
insert_strings(env, env_obj, keys) ==
    IF keys = {} THEN env
    ELSE LET key == CHOOSE k \in keys : TRUE
             next == IF env_obj[key].t = "str"
                     THEN Insert(env, key, env_obj[key].s)
                     ELSE env
         IN  insert_strings(next, env_obj, keys \ {key})

\* commands.rs:85-87
port(config) == IF HasStr(config, "PORT") THEN config.top["PORT"].s ELSE "3456"

\* commands.rs:88
base_url(config) == "http://127.0.0.1:" \o port(config)

\* the synthesis that sets both credentials
env_vars_of_sets_both(config_type, config, ambient) ==
    IF config_type = "Claude"
    THEN IF HasObj(config, "env")
         THEN insert_strings(ambient, config.top["env"].o, DOMAIN config.top["env"].o)
         ELSE ambient
    ELSE LET a == IF HasStr(config, "APIKEY")
                  THEN Insert(ambient, "ANTHROPIC_API_KEY", config.top["APIKEY"].s)
                  ELSE ambient
             b == Insert(a, "ANTHROPIC_AUTH_TOKEN", "test")
         IN  Insert(b, "ANTHROPIC_BASE_URL", base_url(config))

\* commands.rs:67-91: env_vars when the match is left
env_vars_of(config_type, config, ambient) ==
    IF config_type = "Claude"
    THEN IF HasObj(config, "env")
         THEN insert_strings(ambient, config.top["env"].o, DOMAIN config.top["env"].o)
         ELSE ambient
    ELSE LET a == IF HasStr(config, "APIKEY")
                  THEN Insert(ambient, "ANTHROPIC_API_KEY", config.top["APIKEY"].s)
                  ELSE Insert(ambient, "ANTHROPIC_AUTH_TOKEN", "test")
         IN  Insert(a, "ANTHROPIC_BASE_URL", base_url(config))

\* ------------------------------------------------------------------------
\* Profile Store (src/config.rs:40-89)
\* ------------------------------------------------------------------------

\* the stems of the profile file names a directory may hold
Stems == {"a", "b"}

\* String::cmp on the derived names: their rank in ascending order
NameOrder == <<"", "-ccr", "a", "a-ccr", "b", "b-ccr">>
Rank(name) == CHOOSE i \in 1..Len(NameOrder) : NameOrder[i] = name

\* a file name is the sequence of its pieces, cut at its last hyphen:
\* a-settings.json is <<"a", "-", "settings.json">>
ClaudeFile(stem) == <<stem, "-", "settings.json">>
RouterFile(stem) == <<stem, "-", "config.json">>

\* the suffixes of config.rs:50 and 68
settings_suffix == <<"-", "settings.json">>
config_suffix == <<"-", "config.json">>

\* the test that looks at the last piece of the name only
ends_with_ignores_hyphen(file_name, suffix) ==
    /\ file_name # <<>>
    /\ file_name[Len(file_name)] = suffix[Len(suffix)]

\* str::ends_with
ends_with(file_name, suffix) ==
    /\ Len(file_name) >= Len(suffix)
    /\ SubSeq(file_name, Len(file_name) - Len(suffix) + 1, Len(file_name)) = suffix

\* str::strip_suffix(..).unwrap() of a name that ends with the suffix
strip_suffix(file_name, suffix) ==
    SubSeq(file_name, 1, Len(file_name) - Len(suffix))

\* the pieces of a name as one string
RECURSIVE to_string(_)
to_string(pieces) ==
    IF pieces = <<>> THEN "" ELSE pieces[1] \o to_string(Tail(pieces))

\* the paths the program builds: config.rs:44 and 62 with entry.path(),
\* config.rs:93, commands.rs:44 and 22
ClaudePath(file_name) == <<"~/.claude", file_name>>
RouterPath(file_name) == <<"~/.claude-code-router", file_name>>
settings_path == ClaudePath(<<"settings.json">>)
target_path == RouterPath(<<"config.json">>)
local_settings_path == <<"./.claude", <<"settings.local.json">>>>

\* config.rs:51-56 and 69-75: the descriptor pushed for a matching file name
ClaudeItem(file_name) ==
    [name |-> to_string(strip_suffix(file_name, settings_suffix)),
     path |-> ClaudePath(file_name),
     config_type |-> "Claude"]
RouterItem(file_name) ==
    [name |-> to_string(strip_suffix(file_name, config_suffix)) \o "-ccr",
     path |-> RouterPath(file_name),
     config_type |-> "CodeRouter"]

\* the loops of config.rs:46-59 and 64-78 over one enumeration of a directory
ClaudeItems(order) ==
    LET matching == SelectSeq(order, LAMBDA n : ends_with(n, settings_suffix))
    IN  [i \in 1..Len(matching) |-> ClaudeItem(matching[i])]
RouterItems(order) ==
    LET matching == SelectSeq(order, LAMBDA n : ends_with(n, config_suffix))
    IN  [i \in 1..Len(matching) |-> RouterItem(matching[i])]

\* the closure of config.rs:81-87
cmp(a, b) ==
    IF a.config_type = "Claude" /\ b.config_type = "CodeRouter" THEN "Less"
    ELSE IF a.config_type = "CodeRouter" /\ b.config_type = "Claude" THEN "Greater"
    ELSE IF Rank(a.name) < Rank(b.name) THEN "Less"
    ELSE IF Rank(a.name) > Rank(b.name) THEN "Greater"
    ELSE "Equal"

\* Vec::sort_by, a stable sort: x goes behind every element not greater
RECURSIVE insert_sorted(_, _)
insert_sorted(s, x) ==
    IF s = <<>> THEN <<x>>
    ELSE IF cmp(s[Len(s)], x) = "Greater"
         THEN Append(insert_sorted(SubSeq(s, 1, Len(s) - 1), x), s[Len(s)])
         ELSE Append(s, x)

RECURSIVE sort_by(_)
sort_by(s) ==
    IF s = <<>> THEN <<>>
    ELSE insert_sorted(sort_by(SubSeq(s, 1, Len(s) - 1)), s[Len(s)])

\* the orders in which read_dir may enumerate the entries of a directory
Enumerations(S) ==
    {q \in [1..Cardinality(S) -> S] : \A i, j \in 1..Cardinality(S) : i # j => q[i] # q[j]}

\* config.rs:40-89 for one enumeration order of each directory
load_configurations(claude_order, router_order) ==
    sort_by(ClaudeItems(claude_order) \o RouterItems(router_order))

\* the closure of main.rs:201, the crate root's own copy of the function
main_cmp(a, b) ==
    IF Rank(a.name) < Rank(b.name) THEN "Less"
    ELSE IF Rank(a.name) > Rank(b.name) THEN "Greater"
    ELSE "Equal"

RECURSIVE main_insert_sorted(_, _)
main_insert_sorted(s, x) ==
    IF s = <<>> THEN <<x>>
    ELSE IF main_cmp(s[Len(s)], x) = "Greater"
         THEN Append(main_insert_sorted(SubSeq(s, 1, Len(s) - 1), x), s[Len(s)])
         ELSE Append(s, x)

RECURSIVE main_sort_by(_)
main_sort_by(s) ==
    IF s = <<>> THEN <<>>
    ELSE main_insert_sorted(main_sort_by(SubSeq(s, 1, Len(s) - 1)), s[Len(s)])

\* main.rs:159-203 for one enumeration order of each directory
main_load_configurations(claude_order, router_order) ==
    main_sort_by(ClaudeItems(claude_order) \o RouterItems(router_order))

\* ------------------------------------------------------------------------
\* Inputs
\* ------------------------------------------------------------------------

\* ~/.claude/settings.json before the run
EnvObjects ==
    {[k \in K |-> Str("v")] : K \in SUBSET (anthropic_keys \cup {"FOO"})}

BaseFiles ==
    {Absent, Malformed, Scalar,
     Object(EmptyTop),
     Object([model |-> TStr("m")]),
     Object([model |-> TStr("m"), env |-> TStr("e")])}
    \cup {Object([model |-> TStr("m"), env |-> TObj(e)]) : e \in EnvObjects}
    \cup {Object([env |-> TObj([ANTHROPIC_API_KEY |-> Str("v")])])}

\* ./.claude/settings.local.json before the run
OverlayFiles == {Absent, Object([stale |-> TStr("s")])}

\* ~/.claude-code-router/config.json before the run
CcrConfigFiles == {Object([PORT |-> TStr("9999")])}

\* the content of a *-settings.json profile
ClaudeProfiles ==
    {Malformed, Scalar, Object(EmptyTop),
     Object([env |-> TObj([X |-> Str("1")])]),
     Object([env |-> TObj([X |-> Str("1"), N |-> Num]), foo |-> TStr("bar")]),
     Object([env |-> TStr("e"), foo |-> TStr("bar")]),
     Object([env |-> TObj([PATH |-> Str("/opt"), ANTHROPIC_API_KEY |-> Num])]),
     Object([foo |-> TStr("bar")])}

\* the content of a *-config.json profile
RouterProfiles ==
    {Malformed, Scalar, Object(EmptyTop),
     Object([PORT |-> TStr("8080")]),
     Object([PORT |-> TStr("")]),
     Object([PORT |-> TNum]),
     Object([APIKEY |-> TStr("k1")]),
     Object([APIKEY |-> TStr("k1"), PORT |-> TStr("8080")]),
     Object([APIKEY |-> TNum, PORT |-> TStr("8080")])}

ProfilesOf(config_type) ==
    IF config_type = "Claude" THEN ClaudeProfiles ELSE RouterProfiles

\* env::vars(): the inherited environment
EmptyEnv == [k \in {} |-> ""]
AmbientEnvs ==
    {[k \in K \cup {"PATH"} |-> IF k = "PATH" THEN "/bin" ELSE "ambient"] :
        K \in SUBSET {"ANTHROPIC_AUTH_TOKEN", "ANTHROPIC_API_KEY"}}

\* the key events event::read delivers to the selector
Keys == {"Up", "Down", "Enter", "Esc", "q", "other", "not_press"}

\* ------------------------------------------------------------------------
\* State
\* ------------------------------------------------------------------------

VARIABLES
    pc,            \* the statement the program is at
    claude_dir,    \* stems of the *-settings.json files in ~/.claude
    router_dir,    \* stems of the *-config.json files in ~/.claude-code-router
    configs,       \* ui.rs:14
    selected,      \* ui.rs:33
    code,          \* ui.rs:39, the key of the last event read by the selector
    profile,       \* content of the file at configs[selected].path
    base,          \* content of ~/.claude/settings.json
    overlay,       \* content of ./.claude/settings.local.json
    ccr_config,    \* content of ~/.claude-code-router/config.json
    old,           \* the three files as they were before the run
    written,       \* the paths the program has written to or removed
    ambient,       \* env::vars() as read at commands.rs:67
    env_vars,      \* commands.rs:67
    raw,           \* the terminal is in raw mode
    alt,           \* the terminal shows the alternate screen
    entered,       \* ui.rs:21-22 have both succeeded
    unpaired,      \* a mode was left while not entered, or entered twice
    restart,       \* the `ccr restart` child
    target,        \* the `claude` child
    stop,          \* the `ccr stop` child
    stop_attempts, \* calls of stop_ccr
    status,        \* commands.rs:119 and 127, the exit status of the target
    cleaned,       \* commands.rs:133, the Result of cleanup_local_settings
    result,        \* ui.rs:24, the value of run_selector
    error,         \* the `?` that raised the error held in result
    ret            \* the value show_interactive_selector returns

term == <<raw, alt, entered, unpaired>>
files == <<base, overlay, ccr_config, old, written>>
procs == <<restart, target, stop, stop_attempts, status>>
dirs == <<claude_dir, router_dir>>
envs == <<ambient, env_vars>>
vars == <<pc, dirs, configs, selected, code, profile, files, envs, term, procs, cleaned, result, error, ret>>

Init ==
    /\ pc = "start"
    /\ claude_dir \in SUBSET Stems
    /\ router_dir \in SUBSET Stems
    /\ Cardinality(claude_dir) + Cardinality(router_dir) <= MaxProfiles
    /\ configs = <<>>
    /\ selected = 0
    /\ code = "none"
    /\ profile = Absent
    /\ base \in BaseFiles
    /\ overlay \in OverlayFiles
    /\ ccr_config \in CcrConfigFiles
    /\ old = [base |-> base, overlay |-> overlay, ccr_config |-> ccr_config]
    /\ written = {}
    /\ ambient = EmptyEnv
    /\ env_vars = EmptyEnv
    /\ raw = FALSE
    /\ alt = FALSE
    /\ entered = FALSE
    /\ unpaired = FALSE
    /\ restart = "none"
    /\ target = "none"
    /\ stop = "none"
    /\ stop_attempts = 0
    /\ status = "none"
    /\ cleaned = "none"
    /\ result = "none"
    /\ error = "none"
    /\ ret = "none"

config_type == configs[selected + 1].config_type

\* the entries read_dir finds in ~/.claude and in ~/.claude-code-router: the
\* profile files and, when they exist, settings.json and config.json
claude_entries ==
    {ClaudeFile(stem) : stem \in claude_dir}
        \cup (IF Exists(base) THEN {<<"settings.json">>} ELSE {})
router_entries ==
    {RouterFile(stem) : stem \in router_dir}
        \cup (IF Exists(ccr_config) THEN {<<"config.json">>} ELSE {})

\* an error leaves show_interactive_selector by a `?` of its own
Return(value) ==
    /\ pc' = "done"
    /\ ret' = value
    /\ error' = error

\* an error leaves run_selector by a `?`: ui.rs:24 holds it in `result`
Unwind(cause) ==
    /\ pc' = "ui_leave"
    /\ result' = "Err"
    /\ error' = cause
    /\ ret' = ret

\* an error leaves launch_claude_with_config: its locals are dropped
LaunchUnwind(cause) ==
    /\ Unwind(cause)
    /\ ambient' = EmptyEnv
    /\ env_vars' = EmptyEnv
    /\ status' = "none"

Goto(label) ==
    /\ pc' = label
    /\ UNCHANGED <<result, error, ret>>

\* ------------------------------------------------------------------------
\* Selector UI (src/ui.rs)
\* ------------------------------------------------------------------------

\* ui.rs:14-19
LoadConfigurations ==
    /\ pc = "start"
    /\ \/ \E co \in Enumerations(claude_entries), ro \in Enumerations(router_entries) :
            /\ configs' = load_configurations(co, ro)
            /\ IF configs' = <<>>
               THEN Return("Ok") /\ result' = result
               ELSE Goto("ui_enable_raw")
       \/ /\ Return("Err") /\ result' = result
          /\ configs' = configs
    /\ UNCHANGED <<dirs, code, cleaned, selected, profile, files, envs, term, procs>>

\* main.rs:159-203: the list as the crate root's load_configurations returns
\* it; what main.rs does with the list is not followed
MainLoadConfigurations ==
    /\ pc = "start"
    /\ \/ \E co \in Enumerations(claude_entries), ro \in Enumerations(router_entries) :
            /\ configs' = main_load_configurations(co, ro)
            /\ pc' = "main_loaded"
            /\ UNCHANGED <<error, ret>>
       \/ /\ Return("Err")
          /\ configs' = configs
    /\ UNCHANGED <<dirs, code, cleaned, selected, profile, files, envs, term, procs, result>>

\* ui.rs:21
UiEnableRawMode ==
    /\ pc = "ui_enable_raw"
    /\ \/ /\ raw' = TRUE
          /\ unpaired' = (unpaired \/ raw)
          /\ Goto("ui_enter_alt")
       \/ /\ Return("Err") /\ result' = result
          /\ UNCHANGED <<raw, unpaired>>
    /\ UNCHANGED <<dirs, code, cleaned, configs, selected, profile, files, envs, alt, entered, procs>>

\* ui.rs:22
UiEnterAlternateScreen ==
    /\ pc = "ui_enter_alt"
    /\ \/ /\ alt' = TRUE
          /\ entered' = TRUE
          /\ unpaired' = (unpaired \/ alt)
          /\ Goto("sel_print")
       \/ /\ Return("Err") /\ result' = result
          /\ UNCHANGED <<alt, entered, unpaired>>
    /\ UNCHANGED <<dirs, code, cleaned, configs, selected, profile, files, envs, raw, procs>>

\* ui.rs:36
PrintSelectorUi ==
    /\ pc = "sel_print"
    /\ \/ Goto("sel_read")
       \/ Unwind("print_selector_ui")
    /\ UNCHANGED <<dirs, code, cleaned, configs, selected, profile, files, envs, term, procs>>

\* the selector whose cursor stops at the first entry
ReadEvent_no_wrap ==
    /\ pc = "sel_read"
    /\ \/ \E c \in Keys :
            /\ code' = c
            /\ CASE c = "Up" ->
                    /\ selected' = IF selected = 0 THEN 0 ELSE selected - 1
                    /\ Goto("sel_print")
                    /\ profile' = profile
                 [] c = "Down" ->
                    /\ selected' = IF selected = Len(configs) - 1 THEN 0 ELSE selected + 1
                    /\ Goto("sel_print")
                    /\ profile' = profile
                 [] c = "Enter" ->
                    /\ selected' = selected
                    /\ profile' \in ProfilesOf(config_type)
                    /\ Goto("switch")
                 [] c \in {"Esc", "q"} ->
                    /\ pc' = "ui_leave"
                    /\ result' = "Ok"
                    /\ UNCHANGED <<error, ret, selected, profile>>
                 [] OTHER ->
                    /\ Goto("sel_print")
                    /\ UNCHANGED <<selected, profile>>
       \/ /\ Unwind("event_read")
          /\ UNCHANGED <<selected, code, profile>>
    /\ UNCHANGED <<dirs, cleaned, configs, files, envs, term, procs>>

\* the selector that takes q for Enter
ReadEvent_q_activates ==
    /\ pc = "sel_read"
    /\ \/ \E c \in Keys :
            /\ code' = c
            /\ CASE c = "Up" ->
                    /\ selected' = IF selected = 0 THEN Len(configs) - 1 ELSE selected - 1
                    /\ Goto("sel_print")
                    /\ profile' = profile
                 [] c = "Down" ->
                    /\ selected' = IF selected = Len(configs) - 1 THEN 0 ELSE selected + 1
                    /\ Goto("sel_print")
                    /\ profile' = profile
                 [] c \in {"Enter", "q"} ->
                    /\ selected' = selected
                    /\ profile' \in ProfilesOf(config_type)
                    /\ Goto("switch")
                 [] c = "Esc" ->
                    /\ pc' = "ui_leave"
                    /\ result' = "Ok"
                    /\ UNCHANGED <<error, ret, selected, profile>>
                 [] OTHER ->
                    /\ Goto("sel_print")
                    /\ UNCHANGED <<selected, profile>>
       \/ /\ Unwind("event_read")
          /\ UNCHANGED <<selected, code, profile>>
    /\ UNCHANGED <<dirs, cleaned, configs, files, envs, term, procs>>

\* ui.rs:38-69
ReadEvent ==
    /\ pc = "sel_read"
    /\ \/ \E c \in Keys :
            /\ code' = c
            /\ CASE c = "Up" ->
                    /\ selected' = IF selected = 0 THEN Len(configs) - 1 ELSE selected - 1
                    /\ Goto("sel_print")
                    /\ profile' = profile
                 [] c = "Down" ->
                    /\ selected' = IF selected = Len(configs) - 1 THEN 0 ELSE selected + 1
                    /\ Goto("sel_print")
                    /\ profile' = profile
                 [] c = "Enter" ->
                    /\ selected' = selected
                    /\ profile' \in ProfilesOf(config_type)
                    /\ Goto("switch")
                 [] c \in {"Esc", "q"} ->
                    /\ pc' = "ui_leave"
                    /\ result' = "Ok"
                    /\ UNCHANGED <<error, ret, selected, profile>>
                 [] OTHER ->
                    /\ Goto("sel_print")
                    /\ UNCHANGED <<selected, profile>>
       \/ /\ Unwind("event_read")
          /\ UNCHANGED <<selected, code, profile>>
    /\ UNCHANGED <<dirs, cleaned, configs, files, envs, term, procs>>

\* ui.rs:26
UiLeaveAlternateScreen ==
    /\ pc = "ui_leave"
    /\ \/ /\ alt' = FALSE
          /\ unpaired' = (unpaired \/ ~alt)
          /\ Goto("ui_disable_raw")
       \/ /\ Return("Err") /\ result' = result
          /\ UNCHANGED <<alt, unpaired>>
    /\ UNCHANGED <<dirs, code, cleaned, configs, selected, profile, files, envs, raw, entered, procs>>

\* ui.rs:27-29
UiDisableRawMode ==
    /\ pc = "ui_disable_raw"
    /\ \/ /\ raw' = FALSE
          /\ unpaired' = (unpaired \/ ~raw)
          /\ pc' = "done"
          /\ ret' = result
          /\ UNCHANGED <<result, error>>
       \/ /\ Return("Err") /\ result' = result
          /\ UNCHANGED <<raw, unpaired>>
    /\ UNCHANGED <<dirs, code, cleaned, configs, selected, profile, files, envs, alt, entered, procs>>

\* ------------------------------------------------------------------------
\* Activation (src/commands.rs:32-61)
\* ------------------------------------------------------------------------

\* the orchestrator that runs the reconciler for both kinds
SwitchConfiguration_reconciles_router ==
    /\ pc = "switch"
    /\ \/ Goto("bk_base")
       \/ Unwind("home_dir")
    /\ UNCHANGED <<dirs, code, cleaned, configs, selected, profile, files, envs, term, procs>>

\* commands.rs:33-35 and 43
SwitchConfiguration ==
    /\ pc = "switch"
    /\ \/ Goto(IF config_type = "Claude" THEN "bk_base" ELSE "sw_create_dir")
       \/ Unwind("home_dir")
    /\ UNCHANGED <<dirs, code, cleaned, configs, selected, profile, files, envs, term, procs>>

\* ------------------------------------------------------------------------
\* Settings Reconciler (src/config.rs:91-159), called at commands.rs:37
\* ------------------------------------------------------------------------

\* the reconciler that skips a base settings file it cannot parse
BackupReadBase_skips_malformed ==
    /\ pc = "bk_base"
    /\ \/ /\ ~Exists(base) \/ ~Parses(base)
          /\ Goto("bk_profile")
       \/ /\ Exists(base) /\ Parses(base)
          /\ Goto(IF removed_keys(base) # {} THEN "bk_write_create" ELSE "bk_profile")
       \/ /\ Exists(base)
          /\ Unwind("read_base")
    /\ UNCHANGED <<dirs, code, cleaned, configs, selected, profile, files, envs, term, procs>>

\* the reconciler that writes settings.json back whenever it has an env object
BackupReadBase_always_writes ==
    /\ pc = "bk_base"
    /\ \/ /\ ~Exists(base)
          /\ Goto("bk_profile")
       \/ /\ Exists(base) /\ Parses(base)
          /\ Goto(IF HasObj(base, "env") THEN "bk_write_create" ELSE "bk_profile")
       \/ /\ Exists(base) /\ ~Parses(base)
          /\ Unwind("parse_base")
       \/ /\ Exists(base)
          /\ Unwind("read_base")
    /\ UNCHANGED <<dirs, code, cleaned, configs, selected, profile, files, envs, term, procs>>

\* config.rs:95-110: read and parse settings.json, find the keys to remove
BackupReadBase ==
    /\ pc = "bk_base"
    /\ \/ /\ ~Exists(base)
          /\ Goto("bk_profile")
       \/ /\ Exists(base) /\ Parses(base)
          /\ Goto(IF removed_keys(base) # {} THEN "bk_write_create" ELSE "bk_profile")
       \/ /\ Exists(base) /\ ~Parses(base)
          /\ Unwind("parse_base")
       \/ /\ Exists(base)
          /\ Unwind("read_base")
    /\ UNCHANGED <<dirs, code, cleaned, configs, selected, profile, files, envs, term, procs>>

\* config.rs:123, first half of fs::write: File::create opens and truncates
BackupWriteCreate ==
    /\ pc = "bk_write_create"
    /\ \/ /\ base' = Truncated
          /\ written' = written \cup {settings_path}
          /\ Goto("bk_write_all")
       \/ /\ base' = base
          /\ written' = written
          /\ Unwind("write_base")
    /\ UNCHANGED <<dirs, code, cleaned, configs, selected, profile, overlay, ccr_config, old, envs, term, procs>>

\* config.rs:123, second half of fs::write: write_all of the new text
BackupWriteAll ==
    /\ pc = "bk_write_all"
    /\ \/ /\ base' = updated_content(old.base)
          /\ Goto("bk_profile")
       \/ /\ base' = base
          /\ Unwind("write_base")
    /\ UNCHANGED <<dirs, code, cleaned, configs, selected, profile, overlay, ccr_config, old, written, envs, term, procs>>

\* config.rs:129-142: read and parse the profile, collect its non-env keys
BackupReadProfile ==
    /\ pc = "bk_profile"
    /\ \/ /\ Parses(profile)
          /\ Goto(IF writes_local(profile) THEN "bk_local" ELSE "launch_parse")
       \/ /\ ~Parses(profile)
          /\ Unwind("parse_profile")
       \/ Unwind("read_profile")
    /\ UNCHANGED <<dirs, code, cleaned, configs, selected, profile, files, envs, term, procs>>

\* config.rs:143-154: create ./.claude and write settings.local.json
BackupWriteLocal ==
    /\ pc = "bk_local"
    /\ \/ /\ overlay' = Object(local_settings(profile))
          /\ written' = written \cup {local_settings_path}
          /\ Goto("launch_parse")
       \/ /\ overlay' = Truncated
          /\ written' = written \cup {local_settings_path}
          /\ Unwind("write_local")
       \/ /\ overlay' = overlay
          /\ written' = written
          /\ Unwind("write_local")
    /\ UNCHANGED <<dirs, code, cleaned, configs, selected, profile, base, ccr_config, old, envs, term, procs>>

\* ------------------------------------------------------------------------
\* Router activation (src/commands.rs:43-57, 164-192)
\* ------------------------------------------------------------------------

\* commands.rs:44-48
RouterCreateDir ==
    /\ pc = "sw_create_dir"
    /\ \/ Goto("sw_copy")
       \/ Unwind("create_dir_all")
    /\ UNCHANGED <<dirs, code, cleaned, configs, selected, profile, files, envs, term, procs>>

\* the copy whose failure is not propagated
RouterCopy_ignores_failure ==
    /\ pc = "sw_copy"
    /\ ccr_config' \in {profile, ccr_config, Truncated}
    /\ written' = written \cup {target_path}
    /\ Goto("restart_spawn")
    /\ UNCHANGED <<dirs, code, cleaned, configs, selected, profile, base, overlay, old, envs, term, procs>>

\* commands.rs:50
RouterCopy ==
    /\ pc = "sw_copy"
    /\ \/ /\ ccr_config' = profile
          /\ written' = written \cup {target_path}
          /\ Goto("restart_spawn")
       \/ /\ ccr_config' = Truncated
          /\ written' = written \cup {target_path}
          /\ Unwind("copy")
       \/ /\ ccr_config' = ccr_config
          /\ written' = written
          /\ Unwind("copy")
    /\ UNCHANGED <<dirs, code, cleaned, configs, selected, profile, base, overlay, old, envs, term, procs>>

\* commands.rs:167-181
RestartSpawn ==
    /\ pc = "restart_spawn"
    /\ \/ /\ restart' = "running"
          /\ Goto("restart_wait")
       \/ /\ restart' = "spawn_failed"
          /\ Unwind("restart_spawn")
    /\ UNCHANGED <<dirs, code, cleaned, configs, selected, profile, files, envs, term, target, stop, stop_attempts, status>>

\* the restart that is not waited for
RestartWait_no_wait ==
    /\ pc = "restart_wait"
    /\ restart' \in {"running", "exited"}
    /\ Goto("launch_parse")
    /\ UNCHANGED <<dirs, code, cleaned, configs, selected, profile, files, envs, term, target, stop, stop_attempts, status>>

\* commands.rs:183-191: wait for `ccr restart`; its exit status, zero or
\* not, is printed and dropped
RestartWait ==
    /\ pc = "restart_wait"
    /\ \/ /\ restart' = "exited"
          /\ Goto("launch_parse")
       \/ /\ restart' = restart
          /\ Unwind("restart_wait")
    /\ UNCHANGED <<dirs, code, cleaned, configs, selected, profile, files, envs, term, target, stop, stop_attempts, status>>

\* ------------------------------------------------------------------------
\* Launch (src/commands.rs:63-147)
\* ------------------------------------------------------------------------

\* the file launch_claude_with_config is given: commands.rs:41 and 56
config_file == IF config_type = "Claude" THEN profile ELSE ccr_config

\* commands.rs:64-65
LaunchParse ==
    /\ pc = "launch_parse"
    /\ \/ /\ Parses(config_file)
          /\ Goto("synthesize")
       \/ /\ ~Parses(config_file)
          /\ Unwind("parse_config")
       \/ Unwind("read_config")
    /\ UNCHANGED <<dirs, code, cleaned, configs, selected, profile, files, envs, term, procs>>

\* commands.rs:67-93
Synthesize ==
    /\ pc = "synthesize"
    /\ ambient' \in AmbientEnvs
    /\ env_vars' = env_vars_of(config_type, config_file, ambient')
    /\ Goto("launch_leave")
    /\ UNCHANGED <<dirs, code, cleaned, configs, selected, profile, files, term, procs>>

\* commands.rs:95
LaunchLeaveAlternateScreen ==
    /\ pc = "launch_leave"
    /\ \/ /\ alt' = FALSE
          /\ unpaired' = (unpaired \/ ~alt)
          /\ Goto("launch_disable_raw")
          /\ UNCHANGED <<envs, status>>
       \/ /\ LaunchUnwind("leave_alternate_screen")
          /\ UNCHANGED <<alt, unpaired>>
    /\ UNCHANGED <<dirs, code, cleaned, configs, selected, profile, files, raw, entered, restart, target, stop, stop_attempts>>

\* the launch that spawns the target without disabling raw mode
LaunchDisableRawMode_skipped ==
    /\ pc = "launch_disable_raw"
    /\ Goto("target_spawn")
    /\ UNCHANGED <<dirs, code, cleaned, configs, selected, profile, files, envs, term, procs>>

\* commands.rs:96
LaunchDisableRawMode ==
    /\ pc = "launch_disable_raw"
    /\ \/ /\ raw' = FALSE
          /\ unpaired' = (unpaired \/ ~raw)
          /\ Goto("target_spawn")
          /\ UNCHANGED <<envs, status>>
       \/ /\ LaunchUnwind("disable_raw_mode")
          /\ UNCHANGED <<raw, unpaired>>
    /\ UNCHANGED <<dirs, code, cleaned, configs, selected, profile, files, alt, entered, restart, target, stop, stop_attempts>>

\* commands.rs:100-116
TargetSpawn ==
    /\ pc = "target_spawn"
    /\ \/ /\ target' = "running"
          /\ Goto("target_wait")
          /\ UNCHANGED <<envs, status>>
       \/ /\ target' = "spawn_failed"
          /\ LaunchUnwind("target_spawn")
    /\ UNCHANGED <<dirs, code, cleaned, configs, selected, profile, files, term, restart, stop, stop_attempts>>

\* the wait that turns a non-zero exit status into an error
TargetWait_failure_is_error ==
    /\ pc = "target_wait"
    /\ \/ /\ target' = "exited"
          /\ status' = "success"
          /\ Goto(IF config_type = "CodeRouter" THEN "stop_spawn" ELSE "cleanup")
          /\ UNCHANGED envs
       \/ /\ target' = "exited"
          /\ LaunchUnwind("target_status")
       \/ /\ target' = target
          /\ LaunchUnwind("target_wait")
    /\ UNCHANGED <<dirs, code, cleaned, configs, selected, profile, files, term, restart, stop, stop_attempts>>

\* commands.rs:118-119 and 126-127
TargetWait ==
    /\ pc = "target_wait"
    /\ \/ /\ target' = "exited"
          /\ status' \in {"success", "failure"}
          /\ Goto(IF config_type = "CodeRouter" THEN "stop_spawn" ELSE "cleanup")
          /\ UNCHANGED envs
       \/ /\ target' = target
          /\ LaunchUnwind("target_wait")
    /\ UNCHANGED <<dirs, code, cleaned, configs, selected, profile, files, term, restart, stop, stop_attempts>>

\* the stop whose spawn error is propagated with `?`
StopSpawn_propagates ==
    /\ pc = "stop_spawn"
    /\ stop_attempts' = stop_attempts + 1
    /\ \/ /\ stop' = "running"
          /\ Goto("stop_wait")
          /\ UNCHANGED <<envs, status>>
       \/ /\ stop' = "spawn_failed"
          /\ LaunchUnwind("stop_spawn")
    /\ UNCHANGED <<dirs, code, cleaned, configs, selected, profile, files, term, restart, target>>

\* commands.rs:121 with 194-211: stop_ccr is called, its spawn error dropped
StopSpawn ==
    /\ pc = "stop_spawn"
    /\ stop_attempts' = stop_attempts + 1
    /\ \/ /\ stop' = "running"
          /\ Goto("stop_wait")
       \/ /\ stop' = "spawn_failed"
          /\ Goto("pause_enable_raw")
    /\ UNCHANGED <<dirs, code, cleaned, configs, selected, profile, files, envs, term, restart, target, status>>

\* commands.rs:121 with 213-221: the wait of stop_ccr; its exit status is
\* printed, a failed wait is dropped; then commands.rs:123-125
StopWait ==
    /\ pc = "stop_wait"
    /\ stop' \in {"exited", "running"}
    /\ Goto("pause_enable_raw")
    /\ UNCHANGED <<dirs, code, cleaned, configs, selected, profile, files, envs, term, restart, target, stop_attempts, status>>

\* the cleanup whose error is propagated with `?`
CleanupLocalSettings_propagates ==
    /\ pc = "cleanup"
    /\ \/ /\ overlay' = Absent
          /\ written' = written \cup {local_settings_path}
          /\ cleaned' = "Ok"
          /\ Goto("pause_enable_raw")
          /\ UNCHANGED <<envs, status>>
       \/ /\ overlay' = overlay
          /\ written' = written
          /\ cleaned' = "Err"
          /\ LaunchUnwind("cleanup")
    /\ UNCHANGED <<dirs, code, configs, selected, profile, base, ccr_config, old, term, restart, target, stop, stop_attempts>>

\* commands.rs:128-133 with 20-30: remove the overlay if it exists, errors
\* dropped
CleanupLocalSettings ==
    /\ pc = "cleanup"
    /\ \/ /\ Exists(overlay)
          /\ overlay' = Absent
          /\ written' = written \cup {local_settings_path}
          /\ cleaned' = "Ok"
       \/ /\ ~Exists(overlay)
          /\ overlay' = overlay
          /\ written' = written
          /\ cleaned' = "Ok"
       \/ /\ overlay' = overlay
          /\ written' = written
          /\ cleaned' = "Err"
    /\ Goto("pause_enable_raw")
    /\ UNCHANGED <<dirs, code, configs, selected, profile, base, ccr_config, old, envs, term, procs>>

\* commands.rs:138
PauseEnableRawMode ==
    /\ pc = "pause_enable_raw"
    /\ \/ /\ raw' = TRUE
          /\ unpaired' = (unpaired \/ raw)
          /\ Goto("pause_read")
          /\ UNCHANGED <<envs, status>>
       \/ /\ LaunchUnwind("enable_raw_mode")
          /\ UNCHANGED <<raw, unpaired>>
    /\ UNCHANGED <<dirs, code, cleaned, configs, selected, profile, files, alt, entered, restart, target, stop, stop_attempts>>

\* commands.rs:139-143: any key event ends the pause, other events do not
PauseReadEvent ==
    /\ pc = "pause_read"
    /\ \/ Goto("pause_disable_raw") /\ UNCHANGED <<envs, status>>
       \/ Goto("pause_read") /\ UNCHANGED <<envs, status>>
       \/ LaunchUnwind("event_read")
    /\ UNCHANGED <<dirs, code, cleaned, configs, selected, profile, files, term, restart, target, stop, stop_attempts>>

\* commands.rs:144-146, then commands.rs:60 and ui.rs:60-61
PauseDisableRawMode ==
    /\ pc = "pause_disable_raw"
    /\ \/ /\ raw' = FALSE
          /\ unpaired' = (unpaired \/ ~raw)
          /\ pc' = "ui_leave"
          /\ result' = "Ok"
          /\ UNCHANGED <<error, ret>>
          /\ ambient' = EmptyEnv
          /\ env_vars' = EmptyEnv
          /\ status' = "none"
       \/ /\ LaunchUnwind("disable_raw_mode")
          /\ UNCHANGED <<raw, unpaired>>
    /\ UNCHANGED <<dirs, code, cleaned, configs, selected, profile, files, alt, entered, restart, target, stop, stop_attempts>>

\* ------------------------------------------------------------------------
\* Specification
\* ------------------------------------------------------------------------

Next ==
    \/ LoadConfigurations
    \/ MainLoadConfigurations
    \/ UiEnableRawMode
    \/ UiEnterAlternateScreen
    \/ PrintSelectorUi
    \/ ReadEvent
    \/ SwitchConfiguration
    \/ BackupReadBase
    \/ BackupWriteCreate
    \/ BackupWriteAll
    \/ BackupReadProfile
    \/ BackupWriteLocal
    \/ RouterCreateDir
    \/ RouterCopy
    \/ RestartSpawn
    \/ RestartWait
    \/ LaunchParse
    \/ Synthesize
    \/ LaunchLeaveAlternateScreen
    \/ LaunchDisableRawMode
    \/ TargetSpawn
    \/ TargetWait
    \/ StopSpawn
    \/ StopWait
    \/ CleanupLocalSettings
    \/ PauseEnableRawMode
    \/ PauseReadEvent
    \/ PauseDisableRawMode
    \/ UiLeaveAlternateScreen
    \/ UiDisableRawMode

Spec == Init /\ [][Next]_vars

TypeOK ==
    /\ selected \in 0..MaxProfiles
    /\ raw \in BOOLEAN /\ alt \in BOOLEAN
    /\ result \in {"none", "Ok", "Err"}
    /\ ret \in {"none", "Ok", "Err"}
    /\ stop_attempts \in 0..1
    /\ status \in {"none", "success", "failure"}

\* ------------------------------------------------------------------------
\* Properties
\* ------------------------------------------------------------------------

\* Enter was pressed: switch_configuration runs or has run
Activated == profile # Absent

ClaudeActivation == Activated /\ config_type = "Claude"
RouterActivation == Activated /\ config_type = "CodeRouter"

\* env_vars holds the synthesized environment (commands.rs:93-146)
Synthesized ==
    pc \in {"launch_leave", "launch_disable_raw", "target_spawn", "target_wait",
            "stop_spawn", "stop_wait", "cleanup", "pause_enable_raw", "pause_read",
            "pause_disable_raw"}

\* key k is in env exactly as the inherited environment has it
Inherited(k) ==
    /\ k \in DOMAIN env_vars <=> k \in DOMAIN ambient
    /\ k \in DOMAIN ambient => env_vars[k] = ambient[k]

\* C1: in a Router activation the target is spawned only once `ccr restart`
\* has exited, and `ccr stop` is attempted only once the target has exited;
\* the target never runs beside the restart or the stop.
RestartThenTargetThenStop ==
    RouterActivation =>
        /\ target # "none" => restart = "exited"
        /\ target = "running" => stop = "none" /\ stop_attempts = 0
        /\ (stop # "none" \/ stop_attempts > 0) => target = "exited"

RestartThenTargetThenStopWitness ==
    /\ RouterActivation
    /\ restart = "exited"
    /\ target = "exited"
    /\ stop = "running"

\* C2: in a Router activation, once the target has exited and the statement
\* after the wait has run, `ccr stop` has been attempted exactly once, for a
\* zero and for a non-zero exit status of the target; no error of the stop
\* reaches the caller: an error after it comes from the press-any-key pause
\* or from the terminal.
StopAttemptedOnceAndSwallowed ==
    /\ stop_attempts <= 1
    /\ (RouterActivation /\ target = "exited" /\ pc # "stop_spawn") =>
          /\ stop_attempts = 1
          /\ stop # "none"
          /\ pc \in {"stop_wait", "pause_enable_raw", "pause_read", "pause_disable_raw",
                     "ui_leave", "ui_disable_raw", "done"}
          /\ error \in {"none", "enable_raw_mode", "event_read", "disable_raw_mode",
                        "leave_alternate_screen"}
          /\ result = "Err" => error # "none"

StopAttemptedOnceAndSwallowedWitness ==
    /\ RouterActivation
    /\ pc = "pause_enable_raw"
    /\ status = "failure"
    /\ stop = "spawn_failed"
    /\ stop_attempts = 1
    /\ error = "none"

\* C3: when show_interactive_selector returns after raw mode and the
\* alternate screen were entered, raw mode is disabled and the alternate
\* screen is left.
TerminalRestoredOnReturn ==
    (pc = "done" /\ entered) => (~raw /\ ~alt)

\* C4: no mode is entered while entered, and none is left or disabled while
\* it is not entered.
ModesStrictlyPaired == ~unpaired

\* a completed pass of backup_settings_json_if_exists: commands.rs:37 got Ok
ReconcileCompleted ==
    /\ ClaudeActivation
    /\ pc \notin {"switch", "bk_base", "bk_write_create", "bk_write_all", "bk_profile", "bk_local"}
    /\ error \notin {"home_dir", "read_base", "parse_base", "write_base",
                     "read_profile", "parse_profile", "write_local"}

OldEnvKeys == DOMAIN old.base.top["env"].o

\* C5: after a completed reconciler pass on an existing, well-formed
\* settings.json, no credential key is inside env; an env that held only
\* credential keys is gone; an env that held credential keys and others has
\* exactly the others, with their values.
ScrubbedAfterReconcile ==
    (ReconcileCompleted /\ Parses(old.base)) =>
        /\ Parses(base)
        /\ HasObj(base, "env") => DOMAIN base.top["env"].o \cap anthropic_keys = {}
        /\ HasObj(old.base, "env") =>
              /\ (OldEnvKeys # {} /\ OldEnvKeys \subseteq anthropic_keys) => ~Has(base, "env")
              /\ (OldEnvKeys \cap anthropic_keys # {} /\ OldEnvKeys \ anthropic_keys # {}) =>
                    /\ HasObj(base, "env")
                    /\ DOMAIN base.top["env"].o = OldEnvKeys \ anthropic_keys
                    /\ \A k \in OldEnvKeys \ anthropic_keys :
                          base.top["env"].o[k] = old.base.top["env"].o[k]

ScrubbedAfterReconcileWitness ==
    /\ ReconcileCompleted
    /\ HasObj(old.base, "env")
    /\ OldEnvKeys = anthropic_keys
    /\ Has(old.base, "model")
    /\ base = Object([model |-> TStr("m")])

\* C6: when the selected profile's file is malformed JSON, no external
\* process has been started, for either kind of profile.
NoProcessForMalformedProfile ==
    (Activated /\ profile = Malformed) =>
        /\ restart = "none"
        /\ target = "none"
        /\ stop = "none"

\* C7: a Primary activation with an existing, malformed settings.json fails
\* with the parse error (or an error raised before the parse); settings.json
\* and the overlay are as before and no target is launched.
MalformedBaseAborts ==
    (ClaudeActivation /\ old.base = Malformed) =>
        /\ base = old.base
        /\ overlay = old.overlay
        /\ target = "none"
        /\ pc \in {"switch", "bk_base", "ui_leave", "ui_disable_raw", "done"}
        /\ pc \in {"ui_leave", "ui_disable_raw", "done"} =>
              /\ result = "Err"
              /\ error \in {"home_dir", "read_base", "parse_base"}
        /\ pc = "done" => ret = "Err"

MalformedBaseAbortsWitness ==
    /\ ClaudeActivation
    /\ old.base = Malformed
    /\ pc = "done"
    /\ ret = "Err"
    /\ error = "parse_base"

\* C8: settings.json holds the complete old document or the complete
\* scrubbed document, at every point of the run.
BaseNeverPartial ==
    \/ base = old.base
    \/ removed_keys(old.base) # {} /\ base = updated_content(old.base)

\* the port of the claim: the PORT string if present and non-empty, else 3456
ClaimedPort ==
    IF HasStr(config_file, "PORT") /\ config_file.top["PORT"].s # ""
    THEN config_file.top["PORT"].s
    ELSE "3456"

\* C9: for a Router profile ANTHROPIC_BASE_URL is http://127.0.0.1:<port>,
\* the port being PORT when it is a non-empty string and 3456 otherwise.
RouterBaseUrl ==
    (RouterActivation /\ Synthesized) =>
        /\ "ANTHROPIC_BASE_URL" \in DOMAIN env_vars
        /\ env_vars["ANTHROPIC_BASE_URL"] = "http://127.0.0.1:" \o ClaimedPort

\* C10 as claimed: exactly one credential is in the environment, whatever
\* the inherited environment.
RouterExactlyOneCredential ==
    (RouterActivation /\ Synthesized) =>
        /\ HasStr(config_file, "APIKEY") =>
              /\ "ANTHROPIC_API_KEY" \in DOMAIN env_vars
              /\ env_vars["ANTHROPIC_API_KEY"] = config_file.top["APIKEY"].s
              /\ "ANTHROPIC_AUTH_TOKEN" \notin DOMAIN env_vars
        /\ ~Has(config_file, "APIKEY") =>
              /\ "ANTHROPIC_AUTH_TOKEN" \in DOMAIN env_vars
              /\ env_vars["ANTHROPIC_AUTH_TOKEN"] = "test"
              /\ "ANTHROPIC_API_KEY" \notin DOMAIN env_vars

\* C10, amended: the profile sets one credential and leaves the other as
\* inherited: with a string APIKEY, ANTHROPIC_API_KEY is that string and
\* ANTHROPIC_AUTH_TOKEN is present exactly when inherited, with the inherited
\* value; with no APIKEY, ANTHROPIC_AUTH_TOKEN is "test" and
\* ANTHROPIC_API_KEY is present exactly when inherited, with the inherited
\* value.
RouterSetsOneCredential ==
    (RouterActivation /\ Synthesized) =>
        /\ HasStr(config_file, "APIKEY") =>
              /\ "ANTHROPIC_API_KEY" \in DOMAIN env_vars
              /\ env_vars["ANTHROPIC_API_KEY"] = config_file.top["APIKEY"].s
              /\ Inherited("ANTHROPIC_AUTH_TOKEN")
        /\ ~Has(config_file, "APIKEY") =>
              /\ "ANTHROPIC_AUTH_TOKEN" \in DOMAIN env_vars
              /\ env_vars["ANTHROPIC_AUTH_TOKEN"] = "test"
              /\ Inherited("ANTHROPIC_API_KEY")

RouterSetsOneCredentialWitness ==
    /\ RouterActivation
    /\ Synthesized
    /\ HasStr(config_file, "APIKEY")
    /\ "ANTHROPIC_AUTH_TOKEN" \in DOMAIN ambient
    /\ env_vars["ANTHROPIC_API_KEY"] = "k1"
    /\ env_vars["ANTHROPIC_AUTH_TOKEN"] = "ambient"

\* the string-valued entries of the env object of the parsed profile
StringEntries ==
    IF HasObj(config_file, "env")
    THEN {k \in DOMAIN config_file.top["env"].o : config_file.top["env"].o[k].t = "str"}
    ELSE {}

\* C11: for a Primary profile the synthesized environment is the inherited
\* one overridden by exactly the string-valued entries of the profile's env
\* object; non-string entries are ignored and every other inherited variable
\* keeps its value.
PrimaryEnvOverlay ==
    (ClaudeActivation /\ Synthesized) =>
        /\ DOMAIN env_vars = DOMAIN ambient \cup StringEntries
        /\ \A k \in StringEntries : env_vars[k] = config_file.top["env"].o[k].s
        /\ \A k \in DOMAIN ambient \ StringEntries : env_vars[k] = ambient[k]

PrimaryEnvOverlayWitness ==
    /\ ClaudeActivation
    /\ Synthesized
    /\ StringEntries = {"PATH"}
    /\ ambient["PATH"] = "/bin"
    /\ env_vars["PATH"] = "/opt"
    /\ "ANTHROPIC_API_KEY" \in DOMAIN ambient
    /\ env_vars["ANTHROPIC_API_KEY"] = "ambient"

\* C12: the list of profiles has every Primary entry before every Router
\* entry, and within each kind the names ascend.
PrimaryBeforeRouterSorted ==
    \A i, j \in 1..Len(configs) :
        i < j =>
            /\ ~(configs[i].config_type = "CodeRouter" /\ configs[j].config_type = "Claude")
            /\ configs[i].config_type = configs[j].config_type
                   => Rank(configs[i].name) < Rank(configs[j].name)

\* C13: over a non-empty list the cursor stays inside 0..len-1; Up moves it
\* to (selected - 1) mod len, Down to (selected + 1) mod len, and any input
\* other than Enter, Esc and q leaves it where it is and keeps the loop running.
CursorWraps ==
    /\ [](configs # <<>> => selected \in 0..(Len(configs) - 1))
    /\ [][(pc = "sel_read" /\ result' # "Err") =>
            /\ code' = "Up" =>
                    /\ selected' = (selected + Len(configs) - 1) % Len(configs)
                    /\ pc' = "sel_print"
            /\ code' = "Down" =>
                    /\ selected' = (selected + 1) % Len(configs)
                    /\ pc' = "sel_print"
            /\ code' \notin {"Up", "Down", "Enter", "Esc", "q"} =>
                    /\ selected' = selected
                    /\ pc' = "sel_print"]_vars

CursorWrapsWitness ==
    /\ pc = "sel_print"
    /\ code = "Up"
    /\ Len(configs) >= 2
    /\ selected = Len(configs) - 1

\* run_selector has returned or is inside switch_configuration
LoopEnded == Activated \/ result # "none"

\* nothing was written, copied or launched
NothingDone ==
    /\ base = old.base
    /\ overlay = old.overlay
    /\ ccr_config = old.ccr_config
    /\ restart = "none"
    /\ target = "none"
    /\ stop = "none"

\* C14 as stated: the loop ends only by Enter, which activates the profile
\* under the cursor, or by Esc or q, which activate nothing.
LoopEndsOnlyByKey ==
    /\ LoopEnded => code \in {"Enter", "Esc", "q"}
    /\ Activated => code = "Enter"
    /\ ~Activated => NothingDone

\* C14 amended: the loop ends by Enter, which activates the profile under the
\* cursor exactly once, by Esc or q, or by an error of drawing the list or of
\* reading an event; the last two activate nothing: no file is written or
\* copied and no process is launched; no profile is activated before Enter.
LoopEndsByKeyOrError ==
    /\ [](/\ LoopEnded =>
                \/ code \in {"Enter", "Esc", "q"}
                \/ result = "Err" /\ error \in {"print_selector_ui", "event_read"}
          /\ Activated => code = "Enter"
          /\ ~Activated => NothingDone)
    /\ [][/\ (pc' = "switch" /\ pc # "switch") =>
                /\ pc = "sel_read"
                /\ ~Activated
                /\ code' = "Enter"
                /\ selected' = selected
          /\ Activated =>
                /\ selected' = selected
                /\ configs' = configs
                /\ pc' \notin {"sel_print", "sel_read", "switch"}]_vars

LoopEndsByKeyOrErrorWitness ==
    /\ ~Activated
    /\ result = "Err"
    /\ error = "event_read"
    /\ code = "Down"
    /\ pc = "done"

\* the steps of launch_claude_with_config after the target has exited
PostExitSteps == {"stop_spawn", "stop_wait", "cleanup"}
PauseSteps == {"pause_enable_raw", "pause_read", "pause_disable_raw"}

\* C15: a non-zero exit status of the target is only reported: the post-exit
\* step of the kind (stop for Router, cleanup for Primary) still runs, the
\* only errors that can follow are those of the closing pause, and without
\* one the activation returns Ok.
TargetStatusOnlyReported ==
    /\ [](status = "failure" =>
            /\ target = "exited"
            /\ result = "none"
            /\ pc \in PostExitSteps \cup PauseSteps
            /\ pc \in PauseSteps =>
                    IF config_type = "CodeRouter" THEN stop_attempts = 1 ELSE cleaned # "none")
    /\ [][/\ (pc = "target_wait" /\ target' = "exited") =>
                /\ result' = "none"
                /\ pc' = IF config_type = "CodeRouter" THEN "stop_spawn" ELSE "cleanup"
          /\ (status = "failure" /\ result' = "Err") =>
                /\ pc \in PauseSteps
                /\ error' \in {"enable_raw_mode", "event_read", "disable_raw_mode"}
          /\ (status = "failure" /\ pc = "pause_disable_raw" /\ ~raw') =>
                result' = "Ok"]_vars

TargetStatusOnlyReportedWitness ==
    /\ status = "failure"
    /\ pc = "pause_disable_raw"
    /\ RouterActivation
    /\ stop = "exited"

\* a settings.json with no credential key inside env, or with no env object
Scrubbed(f) ==
    /\ f.st = "object"
    /\ HasObj(f, "env") =>
          \A k \in {"ANTHROPIC_BASE_URL", "ANTHROPIC_AUTH_TOKEN", "ANTHROPIC_API_KEY"} :
              k \notin DOMAIN f.top["env"].o

\* C16: the reconciler never writes a settings.json that is already
\* scrubbed, and what a completed pass leaves is scrubbed and is one of the
\* files a pass may start from, so the second of two passes never writes.
ScrubbedIsNotWritten ==
    /\ Scrubbed(old.base) =>
          /\ base = old.base
          /\ pc \notin {"bk_write_create", "bk_write_all"}
    /\ (ReconcileCompleted /\ old.base.st = "object") =>
          /\ Scrubbed(base)
          /\ base \in BaseFiles

ScrubbedIsNotWrittenWitness ==
    /\ ClaudeActivation
    /\ pc = "bk_profile"
    /\ HasObj(old.base, "env")
    /\ DOMAIN old.base.top["env"].o = {"FOO"}
    /\ base = old.base

\* C17: a companion command that cannot be spawned never ends the
\* activation: after a failed spawn of the restart the activation goes on to
\* the target, and after a failed spawn of the stop it does not fail.
CompanionSpawnFailureContinues ==
    /\ restart = "spawn_failed" => ~(result = "Err" /\ error = "restart_spawn" /\ target = "none")
    /\ stop = "spawn_failed" => ~(result = "Err" /\ error = "stop_spawn")

\* C18: while the target runs the terminal is in its normal mode: raw mode is
\* disabled and the alternate screen left before the spawn, and raw mode is
\* not enabled again before the target has exited.
NormalTerminalWhileTargetRuns ==
    /\ [](target = "running" => (~raw /\ ~alt))
    /\ [][(target # "running" /\ target' = "running") => (~raw /\ ~alt /\ ~raw' /\ ~alt')]_vars
    /\ [][(~raw /\ raw') => target # "running"]_vars

NormalTerminalWhileTargetRunsWitness ==
    /\ target = "running"
    /\ entered
    /\ ~raw
    /\ ~alt
    /\ pc = "target_wait"

\* the reconciler has returned Ok and cleanup_local_settings has not run yet
ReconciledNotCleaned ==
    /\ ClaudeActivation
    /\ pc \in {"launch_parse", "synthesize", "launch_leave", "launch_disable_raw",
               "target_spawn", "target_wait", "cleanup"}

\* C19: for a Primary profile that is a JSON object the reconciler writes the
\* overlay exactly when the profile has a top-level key other than env; the
\* overlay written has exactly those keys with the profile's values, whatever
\* was there before; otherwise the overlay is left as it was.
OverlayIsProfileWithoutEnv ==
    /\ pc = "bk_local" => (profile.st = "object" /\ DOMAIN profile.top \ {"env"} # {})
    /\ (ReconciledNotCleaned /\ profile.st = "object") =>
          IF DOMAIN profile.top \ {"env"} # {}
          THEN /\ overlay.st = "object"
               /\ DOMAIN overlay.top = DOMAIN profile.top \ {"env"}
               /\ \A k \in DOMAIN overlay.top : overlay.top[k] = profile.top[k]
          ELSE overlay = old.overlay

OverlayIsProfileWithoutEnvWitness ==
    /\ ReconciledNotCleaned
    /\ pc = "target_wait"
    /\ HasObj(profile, "env")
    /\ Exists(old.overlay)
    /\ overlay = Object([foo |-> TStr("bar")])

\* C20: once the target of a Primary activation has exited the cleanup runs;
\* when it succeeds the overlay does not exist afterwards, written by this
\* activation or not; when it fails the activation goes on to the closing
\* pause, and no error of the activation comes from the cleanup.
OverlayRemovedAfterExit ==
    /\ []((ClaudeActivation /\ target = "exited") =>
            /\ pc = "cleanup" \/ cleaned # "none"
            /\ cleaned = "Ok" => overlay = Absent
            /\ result = "Err" =>
                  error \in {"enable_raw_mode", "event_read", "disable_raw_mode"})
    /\ [][pc = "cleanup" =>
            /\ pc' = "pause_enable_raw"
            /\ result' = "none"
            /\ cleaned' \in {"Ok", "Err"}]_vars
    /\ [][(cleaned = "Err" /\ pc = "pause_disable_raw" /\ ~raw') => result' = "Ok"]_vars

OverlayRemovedAfterExitWitness ==
    /\ ClaudeActivation
    /\ target = "exited"
    /\ pc = "pause_enable_raw"
    /\ cleaned = "Ok"
    /\ ~writes_local(profile)
    /\ Exists(old.overlay)
    /\ overlay = Absent

\* C21: a Router activation never touches settings.json or the local
\* overlay: on every path both files are what they were before the run, and
\* no step of the reconciler or of the cleanup is taken.
RouterBypassesReconciler ==
    RouterActivation =>
        /\ base = old.base
        /\ overlay = old.overlay
        /\ cleaned = "none"
        /\ pc \notin {"bk_base", "bk_write_create", "bk_write_all", "bk_profile",
                      "bk_local", "cleanup"}

RouterBypassesReconcilerWitness ==
    /\ RouterActivation
    /\ pc = "done"
    /\ target = "exited"
    /\ stop_attempts = 1
    /\ removed_keys(old.base) # {}
    /\ Exists(old.overlay)
    /\ Has(profile, "PORT")
    /\ base = old.base
    /\ overlay = old.overlay

\* C22: in a Router activation the profile is copied over config.json before
\* the restart is invoked: when the restart starts and when the target is
\* launched config.json has the content of the chosen profile, and after a
\* failed copy no restart and no target is started.
CopiedBeforeRestart ==
    /\ []((RouterActivation /\ (pc = "restart_spawn" \/ restart # "none" \/ target # "none")) =>
            ccr_config = profile)
    /\ []((result = "Err" /\ error \in {"create_dir_all", "copy"}) =>
            (restart = "none" /\ target = "none" /\ stop = "none"))
    /\ [][(restart = "none" /\ restart' # "none") =>
            (pc = "restart_spawn" /\ ccr_config = profile /\ ccr_config' = profile)]_vars
    /\ [][(RouterActivation /\ target = "none" /\ target' # "none") =>
            (restart = "exited" /\ ccr_config = profile /\ ccr_config' = profile)]_vars

CopiedBeforeRestartWitness ==
    /\ RouterActivation
    /\ target = "running"
    /\ restart = "exited"
    /\ old.ccr_config # profile
    /\ ccr_config = profile

\* C23: no Router activation ends with the companion restarted and no stop
\* attempted.
StopAttemptedAfterRestart ==
    (RouterActivation /\ result # "none" /\ restart = "exited") => stop_attempts = 1

\* C24: outside the write of config.rs:123 itself, settings.json differs from
\* what it was before the run in nothing but the three credential keys inside
\* env and, when env has become empty, the env key: every other top-level key
\* and every other entry of env keeps its value, no key is added, and the
\* file is not deleted.
BaseFrame ==
    IF pc \in {"bk_write_create", "bk_write_all"} THEN TRUE
    ELSE IF old.base.st # "object"
    THEN base = old.base
    ELSE /\ base.st = "object"
         /\ DOMAIN base.top \ {"env"} = DOMAIN old.base.top \ {"env"}
         /\ \A k \in DOMAIN base.top \ {"env"} : base.top[k] = old.base.top[k]
         /\ Has(base, "env") => Has(old.base, "env")
         /\ (Has(old.base, "env") /\ ~HasObj(old.base, "env")) => base = old.base
         /\ HasObj(old.base, "env") =>
               /\ Has(base, "env") =>
                     /\ HasObj(base, "env")
                     /\ DOMAIN base.top["env"].o \subseteq OldEnvKeys
                     /\ OldEnvKeys \ DOMAIN base.top["env"].o \subseteq anthropic_keys
                     /\ \A k \in DOMAIN base.top["env"].o \ anthropic_keys :
                           base.top["env"].o[k] = old.base.top["env"].o[k]
               /\ ~Has(base, "env") => (OldEnvKeys # {} /\ OldEnvKeys \subseteq anthropic_keys)

\* the paths switch_configuration and launch_claude_with_config write to
WrittenPaths == {settings_path, target_path, local_settings_path}

\* C25: no listed profile file is written or removed: every listed path is a
\* file whose name ends in the hyphenated suffix of its kind, so settings.json
\* and config.json are never listed; the program writes to settings.json,
\* config.json and the local overlay only; and the content of the chosen
\* profile stays what it was when it was read.
ProfilesNeverWritten ==
    /\ [](\A i \in 1..Len(configs) :
            /\ configs[i].path \notin WrittenPaths \cup written
            /\ configs[i].path \in {ClaudePath(ClaudeFile(stem)) : stem \in claude_dir}
                                       \cup {RouterPath(RouterFile(stem)) : stem \in router_dir})
    /\ [](written \subseteq WrittenPaths)
    /\ [][Activated => profile' = profile]_vars
    /\ [][UNCHANGED dirs]_vars

ProfilesNeverWrittenWitness ==
    /\ ClaudeActivation
    /\ Len(configs) = MaxProfiles
    /\ Exists(old.base)
    /\ written = {settings_path, local_settings_path}
    /\ pc = "done"

====
